---- MODULE Spec2Model ----
(***************************************************************************)
(* GSAT vocabulary website: the edge API worker (worker-api.js), the       *)
(* standalone audio worker (worker.js) and the progress bookkeeping of the *)
(* browser application (the app script embedded in deploy.sh).             *)
(*                                                                         *)
(* Three programs, eight specifications over one set of variables:         *)
(*   SpecApi     - worker-api.js, one action per route of fetch            *)
(*   SpecFilters - worker-api.js, the random-word and quiz routes over a   *)
(*                 wider set of filter parameters                          *)
(*   SpecWorker  - worker.js, one action per outcome of fetch              *)
(*   SpecClient  - flashcard marking, saveProgress / loadProgress          *)
(*   SpecPaging  - the detail view and the paging of its sentences         *)
(*   SpecLocks   - the locks of the detail view and of the flashcards,     *)
(*                 with fairness of the pending fetches                    *)
(*   SpecRandom  - the random-word button                                  *)
(*   SpecQuiz    - the quiz: start, answers, results, restart              *)
(*                                                                         *)
(* JSON values: an object is a record, an array is a sequence, a string is *)
(* a string.  A missing query parameter and an empty one are the same      *)
(* string "" (every use in the code is `get(..) || ''` or a truthiness     *)
(* test).  A JS number is a record [nan, v] so that NaN is a value of its  *)
(* own and never an integer.                                               *)
(***************************************************************************)
EXTENDS Integers, Sequences, FiniteSets, TLC

(***************************************************************************)
(* Bounds of the data set                                                  *)
(***************************************************************************)
\* number of featured / other sentences of the word "run"
NumFeatured == 4
NumOther == 3

(***************************************************************************)
(* Generic helpers                                                         *)
(***************************************************************************)
Range(s) == {s[i] : i \in DOMAIN s}

\* Array.prototype.filter
RECURSIVE SelectSeqBy(_, _)
SelectSeqBy(s, keep) ==
    IF s = <<>> THEN <<>>
    ELSE IF Head(s) \in keep THEN <<Head(s)>> \o SelectSeqBy(Tail(s), keep)
         ELSE SelectSeqBy(Tail(s), keep)

\* Array.prototype.slice(from, to) with 0-based, already clamped arguments
Slice(s, from, to) ==
    IF from >= Len(s) \/ to <= from THEN <<>>
    ELSE SubSeq(s, from + 1, IF to > Len(s) THEN Len(s) ELSE to)

\* JS numbers
NaN == [nan |-> TRUE, v |-> 0]
Num(n) == [nan |-> FALSE, v |-> n]
isNaN(x) == x.nan

\* the numeric strings the requests use; parseInt reads the leading digits
IntOf ==
    ("0" :> 0) @@ ("1" :> 1) @@ ("2" :> 2) @@ ("2x" :> 2) @@ ("5" :> 5) @@
    ("10" :> 10) @@ ("20" :> 20) @@ ("30" :> 30) @@ ("60" :> 60) @@ ("200" :> 200) @@
    ("3" :> 3) @@ ("4" :> 4) @@ ("6" :> 6) @@ ("7" :> 7) @@ ("8" :> 8) @@ ("9" :> 9) @@
    ("11" :> 11) @@ ("12" :> 12) @@ ("100" :> 100) @@ ("45" :> 45)

parseInt(s) == IF s \in DOMAIN IntOf THEN Num(IntOf[s]) ELSE NaN

\* Math.max / Math.min of an integer and a JS number: NaN is contagious
MathMax(n, x) == IF isNaN(x) THEN NaN ELSE Num(IF x.v > n THEN x.v ELSE n)
MathMin(n, x) == IF isNaN(x) THEN NaN ELSE Num(IF x.v < n THEN x.v ELSE n)

\* `s || dflt` on strings
OrElse(s, dflt) == IF s = "" THEN dflt ELSE s

(***************************************************************************)
(* The data set the pipeline uploads to the object store                   *)
(***************************************************************************)
Lemmas == <<"run", "cat", "tom">>

VocabIndex ==
    << [lemma |-> "run", count |-> 45, primary_pos |-> "VERB", zh_preview |-> "zh-run"],
       [lemma |-> "cat", count |-> 12, primary_pos |-> "NOUN", zh_preview |-> "zh-cat"],
       [lemma |-> "tom", count |-> 3, primary_pos |-> "PROPN", zh_preview |-> "zh-tom"] >>

SearchIndex ==
    [ by_pos |-> [VERB |-> <<"run">>, NOUN |-> <<"cat", "run">>, PROPN |-> <<"tom">>],
      by_frequency |-> [high |-> <<"run">>, mid |-> <<"cat">>, low |-> <<"tom">>] ]

Sents(tag, n) == [i \in 1..n |-> [text |-> <<tag, i>>, source |-> "gsat"]]

\* sentences of a detail document: the new {featured, other} object, the
\* old plain array, or nothing at all
SentencesOf(lemma) ==
    CASE lemma = "run" -> [kind |-> "object", items |-> <<>>,
                           featured |-> Sents("f", NumFeatured), other |-> Sents("o", NumOther)]
      [] lemma = "cat" -> [kind |-> "array", items |-> Sents("c", 2),
                           featured |-> <<>>, other |-> <<>>]
      [] OTHER -> [kind |-> "none", items |-> <<>>, featured |-> <<>>, other |-> <<>>]

IndexEntry(lemma) == CHOOSE w \in Range(VocabIndex) : w.lemma = lemma

DetailDoc(lemma) ==
    [ lemma |-> lemma,
      count |-> IndexEntry(lemma).count,
      meanings |-> << [pos |-> IndexEntry(lemma).primary_pos, zh_def |-> IndexEntry(lemma).zh_preview] >>,
      pos_dist |-> << <<IndexEntry(lemma).primary_pos, IndexEntry(lemma).count>> >>,
      sentences |-> SentencesOf(lemma) ]

\* object keys of VOCAB_DATA
VocabIndexKey == <<"vocab_index.json">>
SearchIndexKey == <<"search_index.json">>
DetailKey(lemma) == <<"vocab_details", lemma>>
StoreKeys == {VocabIndexKey, SearchIndexKey} \cup {DetailKey(Lemmas[i]) : i \in DOMAIN Lemmas}

Absent == [absent |-> TRUE]

\* the R2 object the pipeline uploads under a key
R2Object(key) ==
    CASE key = VocabIndexKey -> [json |-> VocabIndex, etag |-> "etag-vocab", uploaded |-> "lm-vocab"]
      [] key = SearchIndexKey -> [json |-> SearchIndex, etag |-> "etag-search", uploaded |-> "lm-search"]
      [] OTHER -> [json |-> DetailDoc(key[2]), etag |-> "etag-detail", uploaded |-> "lm-detail"]

AudioFiles == {"run.mp3"}

(***************************************************************************)
(* State                                                                   *)
(***************************************************************************)
VARIABLES
    r2,         \* VOCAB_DATA: object key -> R2 object or Absent
    audio,      \* AUDIO_BUCKET of the API worker: set of stored files
    hasKV,      \* env.VOCAB_CACHE is bound
    hasAudio,   \* env.AUDIO_BUCKET is bound
    kv,         \* VOCAB_CACHE: key -> cached JSON value or Absent
    edge,       \* caches.default: request URL -> cached response or Absent
    req,        \* the request handled last
    resp,       \* its response
    ops,        \* the store and cache accesses made while handling it
    \* worker.js
    bucket,     \* AUDIO_BUCKET: object key -> R2 object or Absent
    wreq,       \* the request handled last
    wresp,      \* its response
    wops,       \* the bucket reads made while handling it
    \* the browser application
    flashcardState,     \* AppState.flashcardState: words, currentIndex, knownWords, reviewWords
    loadingFlashcard,   \* AppLocks.loadingFlashcard
    fetching,           \* loadFlashcard is waiting for its detail request
    localStorage,       \* the item gsat_vocab_progress, or Absent
    event,              \* the handler that ran last
    loadingDetail,      \* AppLocks.loadingDetail
    fetchingRandom,     \* AppLocks.fetchingRandom
    generatingQuiz,     \* AppLocks.generatingQuiz
    detailRequests,     \* the detail requests of showWordDetail that are in flight
    detailWord,         \* the word the detail view shows, "" for none
    sentencesList,      \* the sentences in #sentences-list
    loadMoreBtn,        \* the .load-more-sentences button: shown, data-offset, data-limit
    currentFilters,     \* AppState.currentFilters: freqMin, freqMax, pos
    randomRequests,     \* the random requests of getRandomWord that are in flight
    randomAwaitsDetail, \* getRandomWord waits for the showWordDetail of its fallback
    cooldown,           \* the 600 ms timers of getRandomWord that are pending
    quizRequests,       \* the generate requests of startQuiz that are in flight
    quizState,          \* AppState.quizState
    quizView,           \* the quiz container shown: "selection", "active" or "results"
    answerTimers        \* the 1500 ms timers of checkAnswer that are pending

apiVars == <<r2, audio, hasKV, hasAudio, kv, edge, req, resp, ops>>
workerVars == <<bucket, wreq, wresp, wops>>
clientVars == <<flashcardState, loadingFlashcard, fetching, localStorage, event>>
detailVars == <<loadingDetail, detailRequests, detailWord, sentencesList, loadMoreBtn>>
randomVars == <<fetchingRandom, currentFilters, randomRequests, randomAwaitsDetail, cooldown>>
quizVars == <<generatingQuiz, quizRequests, quizState, quizView, answerTimers>>
uiVars == <<detailVars, randomVars, quizVars>>
vars == <<apiVars, workerVars, clientVars, uiVars>>

(***************************************************************************)
(* worker-api.js: responses                                                *)
(***************************************************************************)
CORS_HEADERS ==
    [ allowOrigin |-> "*", allowMethods |-> "GET, POST, OPTIONS", allowHeaders |-> "Content-Type" ]
NoCors == [none |-> TRUE]

CACHE_CONTROL == "public, max-age=3600"
LONG_CACHE == "public, max-age=86400, stale-while-revalidate=604800"

\* a response body: a JSON object (record), a JSON array (sequence), a
\* plain text, a binary object or no body
JsonBody(data) == [kind |-> "object", val |-> data]
ArrayBody(items) == [kind |-> "array", val |-> items]
TextBody(text) == [kind |-> "text", val |-> <<text>>]
BinaryBody(file) == [kind |-> "binary", val |-> <<file>>]
NullBody == [kind |-> "null", val |-> <<>>]

Response(status, ctype, cache, cors, etag, lastmod, body) ==
    [ status |-> status, ctype |-> ctype, cache |-> cache, cors |-> cors,
      etag |-> etag, lastmod |-> lastmod, body |-> body ]

jsonResponse(data, status) ==
    Response(status, "application/json", CACHE_CONTROL, CORS_HEADERS, "", "", JsonBody(data))

jsonResponseNoStore(data, status) ==
    Response(status, "application/json", "no-store", CORS_HEADERS, "", "", JsonBody(data))

\* new Response(text, {status}): a plain-text body and no CORS headers
textResponse(text, status) ==
    Response(status, "text/plain", "", NoCors, "", "", TextBody(text))

(***************************************************************************)
(* worker-api.js: the bindings.  A handler threads a context c = [kv,      *)
(* edge, ops] through its awaits and returns an outcome [resp, kv, edge,   *)
(* ops].                                                                   *)
(***************************************************************************)
Ctx(k, e) == [kv |-> k, edge |-> e, ops |-> <<>>]
Out(c, response) == [resp |-> response, kv |-> c.kv, edge |-> c.edge, ops |-> c.ops]
Log(c, op) == [c EXCEPT !.ops = Append(@, op)]

Lookup(f, key) == IF key \in DOMAIN f THEN f[key] ELSE Absent

\* env.VOCAB_DATA.get(key)
R2Get(key) == Lookup(r2, key)

\* env.VOCAB_CACHE.get(key, 'json') / put(key, JSON.stringify(value))
KvPut(c, key, value) ==
    [Log(c, <<"kv.put", key>>) EXCEPT !.kv = (key :> value) @@ @]

\* caches.default.put(cacheKey, resp.clone())
EdgePut(c, key, response) ==
    [Log(c, <<"edge.put", key>>) EXCEPT !.edge = (key :> response) @@ @]

\* new Request(new URL(request.url), request): the cache key is the URL,
\* path and query string together
CacheKeyOf(request) == <<request.path, request.t>>

(***************************************************************************)
(* handleGetIndex / handleGetSearchIndex: the two handlers are the same    *)
(* code but for the KV key, the object key and the 404 message             *)
(***************************************************************************)
CachedDocument(request, c, kvKey, objKey, missing) ==
    LET cacheKey == CacheKeyOf(request)
        c1 == Log(c, <<"edge.match", cacheKey>>)
        edgeCached == Lookup(c.edge, cacheKey)
    IN
    IF edgeCached # Absent THEN
        LET inm == request.inm
            etag == edgeCached.etag
        IN IF inm # "" /\ etag # "" /\ inm = etag
           THEN Out(c1, Response(304, "", OrElse(edgeCached.cache, CACHE_CONTROL),
                                 CORS_HEADERS, etag, edgeCached.lastmod, NullBody))
           ELSE Out(c1, edgeCached)
    ELSE
    LET c2 == IF hasKV THEN Log(c1, <<"kv.get", kvKey>>) ELSE c1
        cached == IF hasKV THEN Lookup(c.kv, kvKey) ELSE Absent
    IN
    IF cached # Absent THEN
        LET kvResp == Response(200, "application/json", LONG_CACHE, CORS_HEADERS, "", "",
                               cached)
        IN Out(EdgePut(c2, cacheKey, kvResp), kvResp)
    ELSE
    LET c3 == Log(c2, <<"r2.get", objKey>>)
        object == R2Get(objKey)
    IN
    IF object = Absent THEN Out(c3, jsonResponse([error |-> missing], 404))
    ELSE
    LET data == object.json
        body == IF objKey = VocabIndexKey THEN ArrayBody(data) ELSE JsonBody(data)
        c4 == IF hasKV THEN KvPut(c3, kvKey, body) ELSE c3
        r2Resp == Response(200, "application/json", LONG_CACHE, CORS_HEADERS,
                           object.etag, object.uploaded, body)
    IN Out(EdgePut(c4, cacheKey, r2Resp), r2Resp)

\* an index handler that goes to KV and the store without looking at what
\* the edge cache holds
handleGetIndex_PastEdge(request, c) ==
    CachedDocument(request, [c EXCEPT !.edge = <<>>], <<"vocab_index">>, VocabIndexKey,
                   "Index not found")

handleGetIndex(request, c) ==
    CachedDocument(request, c, <<"vocab_index">>, VocabIndexKey, "Index not found")

\* a search-index handler that never reads If-None-Match
handleGetSearchIndex_NoConditional(request, c) ==
    CachedDocument([request EXCEPT !.inm = ""], c, <<"search_index">>, SearchIndexKey,
                   "Search index not found")

handleGetSearchIndex(request, c) ==
    CachedDocument(request, c, <<"search_index">>, SearchIndexKey, "Search index not found")

(***************************************************************************)
(* handleSearch                                                            *)
(***************************************************************************)
\* the characters of the strings that are searched
Chars(s) ==
    CASE s = "run" -> <<"r", "u", "n">>
      [] s = "cat" -> <<"c", "a", "t">>
      [] s = "tom" -> <<"t", "o", "m">>
      [] OTHER -> <<s>>

LowerChar(ch) ==
    CASE ch = "R" -> "r" [] ch = "C" -> "c" [] ch = "T" -> "t" [] OTHER -> ch

toLowerCase(cs) == [i \in DOMAIN cs |-> LowerChar(cs[i])]

RECURSIVE trimStart(_)
trimStart(cs) == IF cs # <<>> /\ Head(cs) = " " THEN trimStart(Tail(cs)) ELSE cs

RECURSIVE trimEnd(_)
trimEnd(cs) ==
    IF cs # <<>> /\ cs[Len(cs)] = " " THEN trimEnd(SubSeq(cs, 1, Len(cs) - 1)) ELSE cs

trim(cs) == trimEnd(trimStart(cs))

startsWith(cs, prefix) ==
    Len(prefix) <= Len(cs) /\ SubSeq(cs, 1, Len(prefix)) = prefix

MaxSearchResults == 100

handleSearch(request, c) ==
    LET query == request.q IN
    IF query = <<>> THEN Out(c, jsonResponse([error |-> "Missing query parameter"], 400))
    ELSE
    LET searchTerm == trim(toLowerCase(query))
        c1 == Log(c, <<"r2.get", VocabIndexKey>>)
        indexObj == R2Get(VocabIndexKey)
    IN
    IF indexObj = Absent THEN Out(c1, jsonResponse([error |-> "Index not found"], 404))
    ELSE
    LET index == indexObj.json
        hits == {w \in Range(index) : startsWith(toLowerCase(Chars(w.lemma)), searchTerm)}
        results == SelectSeqBy(index, hits)
    IN Out(c1, jsonResponse([query |-> searchTerm, count |-> Len(results),
                             results |-> Slice(results, 0, MaxSearchResults)], 200))

(***************************************************************************)
(* splitSentencesData and handleGetDetail                                  *)
(***************************************************************************)
splitSentencesData(sentencesData) ==
    IF sentencesData.kind = "array"
    THEN [featured |-> sentencesData.items, other |-> <<>>]
    ELSE IF sentencesData.kind = "object"
    THEN [featured |-> sentencesData.featured, other |-> sentencesData.other]
    ELSE [featured |-> <<>>, other |-> <<>>]

PreviewSize == 5
CacheMinCount == 10

\* the fields of `data` named in `names` that are defined: JSON.stringify
\* drops the keys whose value is undefined
Defined(data, names) == [f \in (names \cap DOMAIN data) |-> data[f]]

\* a preview of the featured sentences alone, with the paging still
\* starting after five sentences
Minimal_FeaturedOnly(data, lemma) ==
    LET split == splitSentencesData(data.sentences)
        total == Len(split.featured) + Len(split.other)
        sentencesPreview == Slice(split.featured, 0, PreviewSize)
    IN  [ lemma |-> IF "lemma" \in DOMAIN data THEN data.lemma ELSE lemma,
          count |-> IF "count" \in DOMAIN data THEN data.count ELSE 0,
          sentences_preview |-> sentencesPreview,
          sentences_total |-> total,
          sentences_next_offset |-> IF total < PreviewSize THEN total ELSE PreviewSize ]
        @@ Defined(data, {"meanings", "pos_dist", "zh_preview", "definition"})

Minimal(data, lemma) ==
    LET split == splitSentencesData(data.sentences)
        featured == split.featured
        other == split.other
        total == Len(featured) + Len(other)
        first == Slice(featured, 0, PreviewSize)
        sentencesPreview ==
            IF Len(first) < PreviewSize
            THEN first \o Slice(other, 0, PreviewSize - Len(first))
            ELSE first
        previewCount == Len(sentencesPreview)
        nextOffset == IF total < previewCount THEN total ELSE previewCount
    IN  [ lemma |-> IF "lemma" \in DOMAIN data THEN data.lemma ELSE lemma,
          count |-> IF "count" \in DOMAIN data THEN data.count ELSE 0,
          sentences_preview |-> sentencesPreview,
          sentences_total |-> total,
          sentences_next_offset |-> nextOffset ]
        @@ Defined(data, {"meanings", "pos_dist", "zh_preview", "definition"})

handleGetDetail(lemma, c) ==
    IF lemma = "" THEN Out(c, jsonResponse([error |-> "Missing lemma"], 400))
    ELSE
    LET cacheKey == <<"detail", lemma>>
        c1 == IF hasKV THEN Log(c, <<"kv.get", cacheKey>>) ELSE c
        cached == IF hasKV THEN Lookup(c.kv, cacheKey) ELSE Absent
    IN
    IF cached # Absent THEN Out(c1, jsonResponse(cached, 200))
    ELSE
    LET c2 == Log(c1, <<"r2.get", DetailKey(lemma)>>)
        object == R2Get(DetailKey(lemma))
    IN
    IF object = Absent THEN Out(c2, jsonResponse([error |-> "Word not found"], 404))
    ELSE
    LET data == object.json
        minimal == Minimal(data, lemma)
        c3 == IF hasKV /\ minimal.count > CacheMinCount THEN KvPut(c2, cacheKey, minimal) ELSE c2
    IN Out(c3, jsonResponse(minimal, 200))

(***************************************************************************)
(* Filters shared by handleRandomWord and handleGenerateQuiz               *)
(***************************************************************************)
\* indexMap = Object.fromEntries(index.map(w => [w.lemma, w]))
InIndexMap(index, lemma) == \E w \in Range(index) : w.lemma = lemma
IndexMapGet(index, lemma) == CHOOSE w \in Range(index) : w.lemma = lemma

\* indexMap[lemma]?.count || 0
CountOf(index, lemma) ==
    IF InIndexMap(index, lemma) THEN IndexMapGet(index, lemma).count ELSE 0

\* a comma-separated parameter is the sequence of its pieces; as one
\* string it names a key of `obj` only when it is a single piece
IsKeyOf(pieces, obj) == Len(pieces) = 1 /\ pieces[1] \in DOMAIN obj

\* .split(',').filter(Boolean)
NonEmptyPieces(pieces) == SelectSeqBy(pieces, Range(pieces) \ {""})

\* candidates.filter(lemma => !propnSet.has(lemma)), when by_pos.PROPN exists
ExcludePropn(candidates, excludePropn, by_pos) ==
    IF excludePropn /\ "PROPN" \in DOMAIN by_pos
    THEN SelectSeqBy(candidates, Range(candidates) \ Range(by_pos["PROPN"]))
    ELSE candidates

\* the freq_min / freq_max filter; a NaN limit is -Infinity / +Infinity
CountFilter(candidates, index, freqMin, freqMax) ==
    IF ~isNaN(freqMin) \/ ~isNaN(freqMax)
    THEN SelectSeqBy(candidates,
            {l \in Range(candidates) :
                /\ (isNaN(freqMin) \/ CountOf(index, l) >= freqMin.v)
                /\ (isNaN(freqMax) \/ CountOf(index, l) <= freqMax.v)})
    ELSE candidates

LemmasOf(index) == [i \in DOMAIN index |-> index[i].lemma]

(***************************************************************************)
(* handleRandomWord: the set of its outcomes, one per value of             *)
(* Math.random()                                                           *)
(***************************************************************************)
RandomByFreq(freq, searchIndex, index) ==
    IF freq # "" /\ freq \in DOMAIN searchIndex.by_frequency
    THEN searchIndex.by_frequency[freq]
    ELSE LemmasOf(index)

RandomByPos(candidates, pos, by_pos) ==
    IF pos # <<>> /\ IsKeyOf(pos, by_pos)
    THEN SelectSeqBy(candidates, Range(by_pos[pos[1]]))
    ELSE candidates

RandomCandidates(request, searchIndex, index) ==
    LET byFreq == RandomByFreq(request.freq, searchIndex, index)
        byPos == RandomByPos(byFreq, request.pos, searchIndex.by_pos)
        noPropn == ExcludePropn(byPos, request.exclude_propn = "true", searchIndex.by_pos)
    IN CountFilter(noPropn, index, parseInt(request.freq_min), parseInt(request.freq_max))

handleRandomWord(request, c) ==
    LET c1 == Log(c, <<"r2.get", SearchIndexKey>>)
        indexObj == R2Get(SearchIndexKey)
    IN
    IF indexObj = Absent
    THEN {Out(c1, jsonResponseNoStore([error |-> "Search index not found"], 404))}
    ELSE
    LET c2 == Log(c1, <<"r2.get", VocabIndexKey>>)
        vocabIndex == R2Get(VocabIndexKey)
    IN
    \* vocabIndex.json() on null throws; the catch answers 500
    IF vocabIndex = Absent
    THEN {Out(c2, jsonResponseNoStore([error |-> "Failed to get random word"], 500))}
    ELSE
    LET candidates == RandomCandidates(request, indexObj.json, vocabIndex.json) IN
    IF candidates = <<>>
    THEN {Out(c2, jsonResponseNoStore([error |-> "No words found matching criteria"], 404))}
    ELSE
    { LET randomLemma == candidates[k]
          c3 == Log(c2, <<"r2.get", DetailKey(randomLemma)>>)
          object == R2Get(DetailKey(randomLemma))
      IN IF object = Absent
         THEN Out(c3, jsonResponseNoStore([error |-> "Word not found"], 404))
         ELSE Out(c3, jsonResponseNoStore(object.json, 200))
      : k \in DOMAIN candidates }

(***************************************************************************)
(* handleGenerateQuiz: the set of its outcomes, one per run of the random  *)
(* shuffles                                                                *)
(***************************************************************************)
MinQuizCount == 1
MaxQuizCount == 100

\* Math.min(100, Math.max(1, parseInt(count || '10')))
QuizCount(request) ==
    MathMin(MaxQuizCount, MathMax(MinQuizCount, parseInt(OrElse(request.count, "10"))))

QuizByPos(candidates, posParam, by_pos) ==
    IF posParam # <<>>
    THEN SelectSeqBy(candidates,
            UNION {Range(by_pos[p]) : p \in Range(posParam) \cap DOMAIN by_pos})
    ELSE candidates

QuizByLemmas(candidates, lemmasParam, index) ==
    IF lemmasParam # <<>>
    THEN SelectSeqBy(lemmasParam, {l \in Range(lemmasParam) : InIndexMap(index, l)})
    ELSE candidates

QuizCandidates(request, searchData, index) ==
    LET byPos == QuizByPos(LemmasOf(index), NonEmptyPieces(request.pos), searchData.by_pos)
        noPropn == ExcludePropn(byPos, request.exclude_propn = "true", searchData.by_pos)
        byCount == CountFilter(noPropn, index,
                               parseInt(request.freq_min), parseInt(request.freq_max))
    IN QuizByLemmas(byCount, NonEmptyPieces(request.lemmas), index)

\* shuffleArray: every ordering of the array
shuffleArray(array) ==
    LET n == Len(array)
        orders == {p \in [1..n -> 1..n] : \A i, j \in 1..n : i # j => p[i] # p[j]}
    IN {[i \in 1..n |-> array[p[i]]] : p \in orders}

OptionCount == 3

\* generateChoiceOptions: the correct word and up to three of the other
\* candidates, drawn at random.  The options are shuffled once more before
\* they are returned: they are kept as the set of picked {value, label}.
generateChoiceOptions(correctWord, allCandidates, index) ==
    LET otherWords == SelectSeqBy(allCandidates, Range(allCandidates) \ {correctWord})
        n == IF Len(otherWords) < OptionCount THEN Len(otherWords) ELSE OptionCount
        picks == {P \in SUBSET DOMAIN otherWords : Cardinality(P) = n}
        label(l) == IF InIndexMap(index, l) THEN IndexMapGet(index, l).zh_preview ELSE l
    IN {{[value |-> l, label |-> label(l)] : l \in {correctWord} \cup {otherWords[i] : i \in P}}
        : P \in picks}

\* getInflectionVariants: the lemma and its plural / third person form
EndsIn(cs, suffixes) ==
    \E sfx \in suffixes : Len(sfx) <= Len(cs) /\ SubSeq(cs, Len(cs) - Len(sfx) + 1, Len(cs)) = sfx

Vowels == {"a", "e", "i", "o", "u"}

getInflectionVariants(lemma) ==
    LET lower == toLowerCase(Chars(lemma))
        sibilant == EndsIn(lower, {<<"s">>, <<"x">>, <<"z">>, <<"c", "h">>, <<"s", "h">>})
        consonantY == EndsIn(lower, {<<"y">>}) /\ ~EndsIn(lower, {<<v, "y">> : v \in Vowels})
        plural == IF sibilant THEN lower \o <<"e", "s">>
                  ELSE IF consonantY THEN SubSeq(lower, 1, Len(lower) - 1) \o <<"i", "e", "s">>
                  ELSE lower \o <<"s">>
    IN {Chars(lemma), plural}

\* the sentences a fill question reads from a detail document
FillSentences(detail) ==
    IF detail.sentences.kind = "array" THEN detail.sentences.items
    ELSE IF detail.sentences.kind = "object"
    THEN detail.sentences.featured \o detail.sentences.other
    ELSE <<>>

\* questions.length >= count; false when count is NaN
ReachedCount(n, count) == ~isNaN(count) /\ n >= count.v

\* the fill loop from `rest` on with n questions so far: the sets of
\* [questions, ops] it can end with
RECURSIVE FillLoop(_, _, _, _, _)
FillLoop(rest, n, count, shuffled, index) ==
    IF rest = <<>> \/ ReachedCount(n, count) THEN {[questions |-> <<>>, ops |-> <<>>]}
    ELSE
    LET lemma == Head(rest)
        get == <<"r2.get", DetailKey(lemma)>>
        detailObj == R2Get(DetailKey(lemma))
        skip(n2) == {[t EXCEPT !.ops = <<get>> \o @] :
                        t \in FillLoop(Tail(rest), n2, count, shuffled, index)}
    IN
    IF ~InIndexMap(index, lemma) THEN FillLoop(Tail(rest), n, count, shuffled, index)
    ELSE IF detailObj = Absent THEN skip(n)
    ELSE IF FillSentences(detailObj.json) = <<>> THEN skip(n)
    ELSE
    { [t EXCEPT !.questions =
            << [type |-> "fill", word |-> lemma,
                sentence |-> [text |-> FillSentences(detailObj.json)[1].text,
                              blanked |-> getInflectionVariants(lemma)],
                options |-> o, correct |-> lemma] >> \o @]
      : t \in skip(n + 1), o \in generateChoiceOptions(lemma, shuffled, index) }

PosShort(pos) ==
    CASE pos = "NOUN" -> "n." [] pos = "VERB" -> "v." [] pos = "ADJ" -> "adj."
      [] pos = "ADV" -> "adv." [] OTHER -> ""

\* the questions one selected lemma contributes to a choice / spelling quiz
QuestionsFor(lemma, type, shuffled, index) ==
    LET wordInfo == IndexMapGet(index, lemma) IN
    IF ~InIndexMap(index, lemma) THEN {<<>>}
    ELSE IF type = "choice"
    THEN {<< [type |-> "choice", word |-> lemma, question |-> wordInfo.zh_preview,
              options |-> o, correct |-> lemma] >>
          : o \in generateChoiceOptions(lemma, shuffled, index)}
    ELSE IF type = "spelling"
    THEN {<< [type |-> "spelling", word |-> lemma,
              question |-> IF PosShort(wordInfo.primary_pos) = "" THEN wordInfo.zh_preview
                           ELSE PosShort(wordInfo.primary_pos) \o " " \o wordInfo.zh_preview,
              answer |-> lemma, hint |-> <<Len(Chars(lemma)), Chars(lemma)[1]>>,
              correct |-> lemma] >>}
    ELSE {<<>>}

RECURSIVE SelectedLoop(_, _, _, _)
SelectedLoop(selected, type, shuffled, index) ==
    IF selected = <<>> THEN {<<>>}
    ELSE {q \o t : q \in QuestionsFor(Head(selected), type, shuffled, index),
                   t \in SelectedLoop(Tail(selected), type, shuffled, index)}

\* shuffledCandidates.slice(0, count); slice(0, NaN) is empty
SliceCount(shuffled, count) == IF isNaN(count) THEN <<>> ELSE Slice(shuffled, 0, count.v)

handleGenerateQuiz(request, c) ==
    LET type == OrElse(request.type, "choice")
        count == QuizCount(request)
        c1 == Log(c, <<"r2.get", SearchIndexKey>>)
        searchIndex == R2Get(SearchIndexKey)
        failed == jsonResponseNoStore([error |-> "Failed to generate quiz"], 500)
    IN
    \* searchIndex.json() on null throws; the catch answers 500
    IF searchIndex = Absent THEN {Out(c1, failed)}
    ELSE
    LET c2 == Log(c1, <<"r2.get", VocabIndexKey>>)
        vocabIndex == R2Get(VocabIndexKey)
    IN
    IF vocabIndex = Absent THEN {Out(c2, failed)}
    ELSE
    LET index == vocabIndex.json
        candidates == QuizCandidates(request, searchIndex.json, index)
        answer(questions) ==
            jsonResponseNoStore([type |-> type, count |-> Len(questions),
                                 questions |-> questions], 200)
    IN
    IF candidates = <<>> THEN {Out(c2, answer(<<>>))}
    ELSE IF type = "fill"
    THEN { Out([c2 EXCEPT !.ops = @ \o t.ops], answer(t.questions))
           : t \in UNION {FillLoop(sh, 0, count, sh, index) : sh \in shuffleArray(candidates)} }
    ELSE { Out(c2, answer(qs))
           : qs \in UNION {SelectedLoop(SliceCount(sh, count), type, sh, index)
                           : sh \in shuffleArray(candidates)} }

(***************************************************************************)
(* handleGetSentences and handleGetAudio                                   *)
(***************************************************************************)
DefaultLimit == 30
MaxLimit == 100

\* a sentences handler that answers through the caching detail handler
handleGetSentences_ViaDetail(request, c) == handleGetDetail(request.lemma, c)

\* a sentences handler that slices to `limit` instead of `offset + limit`
handleGetSentences_SliceToLimit(request, c) ==
    LET lemma == request.lemma IN
    IF lemma = "" THEN Out(c, jsonResponseNoStore([error |-> "Missing lemma"], 400))
    ELSE
    LET parsedOffset == parseInt(OrElse(request.offset, "0"))
        parsedLimit == parseInt(OrElse(request.limit, "30"))
        limit0 == IF isNaN(parsedLimit) \/ parsedLimit.v <= 0 THEN DefaultLimit ELSE parsedLimit.v
        limit == IF limit0 > MaxLimit THEN MaxLimit ELSE IF limit0 < 1 THEN 1 ELSE limit0
        c1 == Log(c, <<"r2.get", DetailKey(lemma)>>)
        object == R2Get(DetailKey(lemma))
    IN
    IF object = Absent THEN Out(c1, jsonResponseNoStore([error |-> "Word not found"], 404))
    ELSE
    LET split == splitSentencesData(object.json.sentences)
        all == split.featured \o split.other
        total == Len(all)
        items == IF isNaN(parsedOffset) THEN <<>>
                 ELSE LET offset == IF parsedOffset.v < 0 THEN 0 ELSE parsedOffset.v
                      IN Slice(all, offset, limit)
        reached == IF isNaN(parsedOffset) THEN NaN
                   ELSE Num((IF parsedOffset.v < 0 THEN 0 ELSE parsedOffset.v) + Len(items))
        nextOffset == MathMin(total, reached)
        hasMore == ~isNaN(nextOffset) /\ nextOffset.v < total
    IN Out(c1, jsonResponseNoStore([items |-> items, total |-> total,
                                    next_offset |-> nextOffset, has_more |-> hasMore], 200))

handleGetSentences(request, c) ==
    LET lemma == request.lemma IN
    IF lemma = "" THEN Out(c, jsonResponseNoStore([error |-> "Missing lemma"], 400))
    ELSE
    LET parsedOffset == parseInt(OrElse(request.offset, "0"))
        parsedLimit == parseInt(OrElse(request.limit, "30"))
        limit0 == IF isNaN(parsedLimit) \/ parsedLimit.v <= 0 THEN DefaultLimit ELSE parsedLimit.v
        limit == IF limit0 > MaxLimit THEN MaxLimit ELSE IF limit0 < 1 THEN 1 ELSE limit0
        c1 == Log(c, <<"r2.get", DetailKey(lemma)>>)
        object == R2Get(DetailKey(lemma))
    IN
    IF object = Absent THEN Out(c1, jsonResponseNoStore([error |-> "Word not found"], 404))
    ELSE
    LET split == splitSentencesData(object.json.sentences)
        all == split.featured \o split.other
        total == Len(all)
        \* Math.max(0, NaN) is NaN and slice(NaN, NaN) is empty
        items == IF isNaN(parsedOffset) THEN <<>>
                 ELSE LET offset == IF parsedOffset.v < 0 THEN 0 ELSE parsedOffset.v
                      IN Slice(all, offset, offset + limit)
        reached == IF isNaN(parsedOffset) THEN NaN
                   ELSE Num((IF parsedOffset.v < 0 THEN 0 ELSE parsedOffset.v) + Len(items))
        nextOffset == MathMin(total, reached)
        hasMore == ~isNaN(nextOffset) /\ nextOffset.v < total
    IN Out(c1, jsonResponseNoStore([items |-> items, total |-> total,
                                    next_offset |-> nextOffset, has_more |-> hasMore], 200))

AUDIO_CACHE == "public, max-age=31536000"

handleGetAudio(audioPath, c) ==
    IF ~hasAudio THEN Out(c, textResponse("Audio service not available", 503))
    ELSE
    LET c1 == Log(c, <<"audio.get", audioPath>>) IN
    IF audioPath \notin audio THEN Out(c1, textResponse("Audio not found", 404))
    ELSE Out(c1, Response(200, "audio/mpeg", AUDIO_CACHE, CORS_HEADERS, "", "",
                          BinaryBody(audioPath)))

(***************************************************************************)
(* fetch of worker-api.js.  A path is the sequence of its segments:        *)
(* /api/vocab/detail/run is <<"api", "vocab", "detail", "run">>, / is <<>> *)
(***************************************************************************)
IndexPath == <<"api", "vocab", "index">>
SearchPath == <<"api", "vocab", "search">>
DetailPrefix == <<"api", "vocab", "detail">>
RandomPath == <<"api", "vocab", "random">>
QuizPath == <<"api", "quiz", "generate">>
SearchIndexPath == <<"api", "search-index">>
SentencesPath == <<"api", "vocab", "sentences">>
AudioPrefix == <<"audio">>
RootPath == <<>>

\* pathname.startsWith(prefix + '/')
UnderPrefix(path, prefix) ==
    Len(path) > Len(prefix) /\ SubSeq(path, 1, Len(prefix)) = prefix

ApiInfo ==
    [name |-> "GSAT Vocabulary API", version |-> "1.0.0",
     endpoints |-> {IndexPath, SearchPath, DetailPrefix, RandomPath, QuizPath,
                    SearchIndexPath, AudioPrefix}]

\* the try block of fetch: the dispatch on url.pathname
route(request, c) ==
    IF request.path = IndexPath THEN {handleGetIndex(request, c)}
    ELSE IF request.path = SearchPath THEN {handleSearch(request, c)}
    ELSE IF UnderPrefix(request.path, DetailPrefix)
    THEN {handleGetDetail(request.path[Len(request.path)], c)}
    ELSE IF request.path = RandomPath THEN handleRandomWord(request, c)
    ELSE IF request.path = QuizPath THEN handleGenerateQuiz(request, c)
    ELSE IF request.path = SearchIndexPath THEN {handleGetSearchIndex(request, c)}
    ELSE IF request.path = SentencesPath THEN {handleGetSentences(request, c)}
    ELSE IF UnderPrefix(request.path, AudioPrefix)
    THEN {handleGetAudio(SubSeq(request.path, 2, Len(request.path)), c)}
    ELSE IF request.path = RootPath THEN {Out(c, jsonResponse(ApiInfo, 200))}
    ELSE {Out(c, jsonResponse([error |-> "Not found"], 404))}

\* a fetch that dispatches every request that is not OPTIONS
fetch_AnyMethod(request, c) ==
    IF request.method = "OPTIONS"
    THEN {Out(c, Response(204, "", "", CORS_HEADERS, "", "", NullBody))}
    ELSE route(request, c)

fetch(request, c) ==
    IF request.method = "OPTIONS"
    THEN {Out(c, Response(204, "", "", CORS_HEADERS, "", "", NullBody))}
    ELSE IF request.method # "GET"
    THEN {Out(c, jsonResponse([error |-> "Method not allowed"], 405))}
    ELSE route(request, c)

(***************************************************************************)
(* Requests                                                                *)
(***************************************************************************)
Get(path) ==
    [ method |-> "GET", path |-> path, t |-> "", inm |-> "", q |-> <<>>,
      freq |-> "", pos |-> <<>>, exclude_propn |-> "", freq_min |-> "", freq_max |-> "",
      type |-> "", count |-> "", lemmas |-> <<>>, lemma |-> "", offset |-> "", limit |-> "" ]

NoRequest == [Get(RootPath) EXCEPT !.method = "NONE"]
NoResponse == Response(0, "", "", NoCors, "", "", NullBody)

IndexRequests ==
    {[Get(IndexPath) EXCEPT !.t = t, !.inm = inm]
        : t \in {"", "1"}, inm \in {"", "etag-vocab", "stale"}}

SearchIndexRequests ==
    {[Get(SearchIndexPath) EXCEPT !.t = t, !.inm = inm]
        : t \in {""}, inm \in {"", "etag-search", "stale"}}

SearchRequests ==
    {[Get(SearchPath) EXCEPT !.q = q] : q \in {<<>>, <<"R", "U", " ">>, <<"x">>}}

DetailRequests ==
    {Get(DetailPrefix \o <<l>>) : l \in {"run", "cat", "tom", "zzz", ""}}

SentencesRequests ==
    {[Get(SentencesPath) EXCEPT !.lemma = l, !.offset = o, !.limit = n]
        : l \in {"", "run", "zzz"}, o \in {"", "5"}, n \in {"2"}}

AudioRequests == {Get(AudioPrefix \o <<f>>) : f \in {"run.mp3", "none.mp3"}}

OtherPaths == {RootPath, <<"nope">>, DetailPrefix}

\* the paths of the requests that are not GET
AnyPaths ==
    {IndexPath, DetailPrefix \o <<"run">>, QuizPath, AudioPrefix \o <<"run.mp3">>,
     RootPath, <<"nope">>}

\* the filter parameters of /api/vocab/random
RandomRequestsOver(freqs, poss, excludes, mins, maxs) ==
    {[Get(RandomPath) EXCEPT !.freq = f, !.pos = p, !.exclude_propn = x,
                             !.freq_min = lo, !.freq_max = hi]
        : f \in freqs, p \in poss, x \in excludes, lo \in mins, hi \in maxs}

\* the parameters of /api/quiz/generate
QuizRequestsOver(types, counts, freqs, poss, excludes, mins, maxs, lemmass) ==
    {[Get(QuizPath) EXCEPT !.type = ty, !.count = n, !.freq = f, !.pos = p,
                           !.exclude_propn = x, !.freq_min = lo, !.freq_max = hi,
                           !.lemmas = ls]
        : ty \in types, n \in counts, f \in freqs, p \in poss, x \in excludes,
          lo \in mins, hi \in maxs, ls \in lemmass}

\* the requests of the whole-API specification: a few of each
FewRandomRequests ==
    RandomRequestsOver({"", "high"}, {<<>>, <<"NOUN">>}, {""}, {""}, {""})
FewQuizRequests ==
    QuizRequestsOver({"", "fill"}, {"", "1"}, {""}, {<<>>}, {""}, {""}, {""}, {<<>>})

\* the requests of the filter specification: every combination
AllRandomRequests ==
    RandomRequestsOver({"", "high", "mid"}, {<<>>, <<"NOUN">>, <<"ADV">>},
                       {"", "true"}, {"", "5"}, {"", "20"})
AllQuizRequests ==
    QuizRequestsOver({"", "spelling", "fill"}, {"", "abc", "1", "200"},
                     {"", "high"}, {<<>>, <<"NOUN", "PROPN">>, <<"ADV", "">>},
                     {"", "true"}, {""}, {""}, {<<>>, <<"tom">>})

(***************************************************************************)
(* Actions of the API worker: one per branch of fetch                      *)
(***************************************************************************)
Handle(request) ==
    \E out \in fetch(request, Ctx(kv, edge)) :
        /\ req' = request
        /\ resp' = out.resp
        /\ kv' = out.kv
        /\ edge' = out.edge
        /\ ops' = out.ops
        /\ UNCHANGED <<r2, audio, hasKV, hasAudio, workerVars, clientVars, uiVars>>

Options ==
    \E p \in AnyPaths :
        LET request == [Get(p) EXCEPT !.method = "OPTIONS"]
        IN request.method = "OPTIONS" /\ Handle(request)
MethodNotAllowed ==
    \E p \in AnyPaths, m \in {"POST", "DELETE"} :
        LET request == [Get(p) EXCEPT !.method = m]
        IN request.method \notin {"GET", "OPTIONS"} /\ Handle(request)
GetIndex ==
    \E request \in IndexRequests : request.path = IndexPath /\ Handle(request)
Search ==
    \E request \in SearchRequests : request.path = SearchPath /\ Handle(request)
GetDetail ==
    \E request \in DetailRequests :
        UnderPrefix(request.path, DetailPrefix) /\ Handle(request)
RandomWord ==
    \E request \in FewRandomRequests : request.path = RandomPath /\ Handle(request)
GenerateQuiz ==
    \E request \in FewQuizRequests : request.path = QuizPath /\ Handle(request)
GetSearchIndex ==
    \E request \in SearchIndexRequests :
        request.path = SearchIndexPath /\ Handle(request)
GetSentences ==
    \E request \in SentencesRequests : request.path = SentencesPath /\ Handle(request)
GetAudio ==
    \E request \in AudioRequests : UnderPrefix(request.path, AudioPrefix) /\ Handle(request)
OtherPath ==
    \E p \in OtherPaths : Get(p).method = "GET" /\ Handle(Get(p))

RandomWordAll ==
    \E request \in AllRandomRequests : request.path = RandomPath /\ Handle(request)
GenerateQuizAll ==
    \E request \in AllQuizRequests : request.path = QuizPath /\ Handle(request)

\* the objects a deployment may lack
Removable == {VocabIndexKey, SearchIndexKey, DetailKey("cat")}
Stores ==
    {[k \in StoreKeys |-> IF k \in gone THEN Absent ELSE R2Object(k)] : gone \in SUBSET Removable}

ApiStart ==
    /\ r2 \in Stores
    /\ hasKV \in BOOLEAN
    /\ hasAudio \in BOOLEAN
    /\ audio = {<<f>> : f \in AudioFiles}
    /\ kv = <<>>
    /\ edge = <<>>
    /\ req = NoRequest
    /\ resp = NoResponse
    /\ ops = <<>>

(***************************************************************************)
(* worker.js: the standalone audio worker.  An object key is the sequence  *)
(* of its characters.                                                      *)
(***************************************************************************)
Mp3Suffix == <<".", "m", "p", "3">>
KeyA == <<"a">> \o Mp3Suffix
KeyB == <<"b">> \o Mp3Suffix
WorkerKeys == {<<>>, KeyA, KeyB, Mp3Suffix, <<"a", ".", "t", "x", "t">>, <<"m", "p", "3">>}
WorkerMethods == {"GET", "POST", "OPTIONS", "HEAD"}

endsWith(cs, suffix) == EndsIn(cs, {suffix})

WORKER_CACHE == "public, max-age=2592000"

\* a worker that reads the bucket before it validates the request
workerFetch_ReadFirst(request) ==
    LET objectKey == request.key
        object == Lookup(bucket, objectKey)
        reads == << <<"bucket.get", objectKey>> >>
    IN
    IF request.method # "GET"
    THEN [resp |-> textResponse("Method Not Allowed", 405), ops |-> reads]
    ELSE IF objectKey = <<>> \/ ~endsWith(objectKey, Mp3Suffix)
    THEN [resp |-> textResponse("Invalid request. Please request an .mp3 file.", 400),
          ops |-> reads]
    ELSE IF object = Absent
    THEN [resp |-> Response(404, "text/plain", "", NoCors, "", "",
                            [kind |-> "text", val |-> <<"Object Not Found: ", objectKey>>]),
          ops |-> reads]
    ELSE [resp |-> Response(200, object.contentType, WORKER_CACHE, NoCors,
                            object.httpEtag, "", BinaryBody(objectKey)),
          ops |-> reads]

workerFetch(request) ==
    LET objectKey == request.key IN
    IF request.method # "GET"
    THEN [resp |-> textResponse("Method Not Allowed", 405), ops |-> <<>>]
    ELSE IF objectKey = <<>> \/ ~endsWith(objectKey, Mp3Suffix)
    THEN [resp |-> textResponse("Invalid request. Please request an .mp3 file.", 400),
          ops |-> <<>>]
    ELSE
    LET object == Lookup(bucket, objectKey)
        reads == << <<"bucket.get", objectKey>> >>
    IN
    IF object = Absent
    THEN [resp |-> Response(404, "text/plain", "", NoCors, "", "",
                            [kind |-> "text", val |-> <<"Object Not Found: ", objectKey>>]),
          ops |-> reads]
    ELSE [resp |-> Response(200, object.contentType, WORKER_CACHE, NoCors,
                            object.httpEtag, "", BinaryBody(objectKey)),
          ops |-> reads]

WorkerHandle(request) ==
    LET out == workerFetch(request) IN
    /\ wreq' = request
    /\ wresp' = out.resp
    /\ wops' = out.ops
    /\ UNCHANGED <<bucket, apiVars, clientVars, uiVars>>

WorkerOtherMethod ==
    \E m \in WorkerMethods \ {"GET"}, k \in WorkerKeys :
        m # "GET" /\ WorkerHandle([method |-> m, key |-> k])

WorkerGet ==
    \E k \in WorkerKeys : k \in WorkerKeys /\ WorkerHandle([method |-> "GET", key |-> k])

AudioObject(etag) == [httpEtag |-> etag, contentType |-> "audio/mpeg"]

WorkerStart ==
    /\ bucket \in {(KeyA :> a) @@ (KeyB :> b)
                    : a \in {Absent, AudioObject("e1"), AudioObject("e2")},
                      b \in {Absent, AudioObject("e1")}}
    /\ wreq = [method |-> "NONE", key |-> <<>>]
    /\ wresp = NoResponse
    /\ wops = <<>>

(***************************************************************************)
(* The browser application: flashcards and learning progress.  A JS Set is *)
(* the sequence of its members in insertion order.                         *)
(***************************************************************************)
\* how far nextFlashcard may run past the end of the deck
MaxOvershoot == 1

SetAdd(set, x) == IF x \in Range(set) THEN set ELSE Append(set, x)
SetDelete(set, x) == SelectSeqBy(set, Range(set) \ {x})

\* new Set(array)
RECURSIVE NewSet(_)
NewSet(array) ==
    IF array = <<>> THEN <<>>
    ELSE LET init == NewSet(SubSeq(array, 1, Len(array) - 1))
         IN SetAdd(init, array[Len(array)])

\* JSON.stringify of the progress object: the text as its tokens
StringifyArray(array) ==
    << <<"[">> >> \o [i \in DOMAIN array |-> <<"string", array[i]>>] \o << <<"]">> >>

StringifyProgress(progress) ==
    << <<"{">>, <<"key", "knownWords">> >> \o StringifyArray(progress.knownWords)
    \o << <<"key", "reviewWords">> >> \o StringifyArray(progress.reviewWords)
    \o << <<"key", "lastUpdated">>, <<"number">>, <<"}">> >>

\* JSON.parse(text)[key] || []: the strings between the key and the next "]"
RECURSIVE ParseStrings(_)
ParseStrings(tokens) ==
    IF tokens = <<>> \/ Head(tokens) = <<"]">> THEN <<>>
    ELSE IF Head(tokens)[1] = "string" THEN <<Head(tokens)[2]>> \o ParseStrings(Tail(tokens))
    ELSE ParseStrings(Tail(tokens))

ParsedArray(text, key) ==
    IF \E i \in DOMAIN text : text[i] = <<"key", key>>
    THEN LET i == CHOOSE i \in DOMAIN text : text[i] = <<"key", key>>
         IN ParseStrings(SubSeq(text, i + 1, Len(text)))
    ELSE <<>>

InitialFlashcardState ==
    [words |-> <<>>, currentIndex |-> 0, knownWords |-> <<>>, reviewWords |-> <<>>]

\* a saveProgress that forgets the words to review
saveProgress_KnownOnly(fs) ==
    StringifyProgress([knownWords |-> fs.knownWords, reviewWords |-> <<>>])

\* saveProgress: the value written to localStorage (lastUpdated is written
\* and never read; it is a number token without a value)
saveProgress(fs) ==
    StringifyProgress([knownWords |-> fs.knownWords, reviewWords |-> fs.reviewWords])

\* loadProgress
loadProgress(fs, saved) ==
    IF saved # Absent
    THEN [fs EXCEPT !.knownWords = NewSet(ParsedArray(saved, "knownWords")),
                    !.reviewWords = NewSet(ParsedArray(saved, "reviewWords"))]
    ELSE fs

\* loadFlashcard with a summary that keeps the lock
loadFlashcard_SummaryKeepsLock(fs, lock, pending) ==
    IF lock THEN [fs |-> fs, lock |-> lock, fetching |-> pending]
    ELSE IF fs.currentIndex >= Len(fs.words)
    THEN [fs |-> fs, lock |-> TRUE, fetching |-> pending]
    ELSE [fs |-> fs, lock |-> TRUE, fetching |-> TRUE]

\* loadFlashcard up to its await: [fs, lock, fetching]
loadFlashcard(fs, lock, pending) ==
    IF lock THEN [fs |-> fs, lock |-> lock, fetching |-> pending]
    ELSE IF fs.currentIndex >= Len(fs.words)
    THEN [fs |-> fs, lock |-> FALSE, fetching |-> pending]
    ELSE [fs |-> fs, lock |-> TRUE, fetching |-> TRUE]

ClientStep(next, stored) ==
    /\ flashcardState' = next.fs
    /\ loadingFlashcard' = next.lock
    /\ fetching' = next.fetching
    /\ localStorage' = stored
    /\ UNCHANGED <<apiVars, workerVars, uiVars>>

\* DOMContentLoaded: a fresh AppState, then loadProgress()
PageLoad ==
    /\ event' = "pageLoad"
    /\ ClientStep([fs |-> loadProgress(InitialFlashcardState, localStorage),
                   lock |-> FALSE, fetching |-> FALSE], localStorage)

\* the decks startFlashcardWithSetup can choose
Decks == UNION {shuffleArray(SelectSeqBy(Lemmas, S)) : S \in (SUBSET Range(Lemmas)) \ {{}}}

startFlashcardWithSetup(chosen) ==
    ClientStep(loadFlashcard([flashcardState EXCEPT !.words = chosen, !.currentIndex = 0],
                             loadingFlashcard, fetching),
               localStorage)

StartFlashcard ==
    \E chosen \in Decks : event' = "start" /\ startFlashcardWithSetup(chosen)

\* the detail request of loadFlashcard returns (or fails): the tail of
\* loadFlashcard releases the lock
FlashcardLoaded ==
    /\ fetching
    /\ event' = "loaded"
    /\ ClientStep([fs |-> flashcardState, lock |-> FALSE, fetching |-> FALSE], localStorage)

nextFlashcard(fs, lock, pending) ==
    IF lock THEN [fs |-> fs, lock |-> lock, fetching |-> pending]
    ELSE loadFlashcard([fs EXCEPT !.currentIndex = @ + 1], lock, pending)

NextFlashcard ==
    /\ flashcardState.currentIndex < Len(flashcardState.words) + MaxOvershoot
    /\ event' = "next"
    /\ ClientStep(nextFlashcard(flashcardState, loadingFlashcard, fetching), localStorage)

previousFlashcard(fs, lock, pending) ==
    IF lock THEN [fs |-> fs, lock |-> lock, fetching |-> pending]
    ELSE IF fs.currentIndex > 0
    THEN loadFlashcard([fs EXCEPT !.currentIndex = @ - 1], lock, pending)
    ELSE [fs |-> fs, lock |-> lock, fetching |-> pending]

PreviousFlashcard ==
    /\ event' = "previous"
    /\ ClientStep(previousFlashcard(flashcardState, loadingFlashcard, fetching), localStorage)

\* the sets after markFlashcard(type) on the current word
Marked(fs, type) ==
    LET currentWord == fs.words[fs.currentIndex + 1] IN
    IF type = "known"
    THEN [fs EXCEPT !.knownWords = SetAdd(@, currentWord),
                    !.reviewWords = SetDelete(@, currentWord)]
    ELSE [fs EXCEPT !.reviewWords = SetAdd(@, currentWord),
                    !.knownWords = SetDelete(@, currentWord)]

\* markFlashcard: nothing while a card loads; words[currentIndex].lemma
\* throws past the end of the deck, before anything is changed
markFlashcard(type) ==
    IF loadingFlashcard \/ flashcardState.currentIndex >= Len(flashcardState.words)
    THEN ClientStep([fs |-> flashcardState, lock |-> loadingFlashcard, fetching |-> fetching],
                    localStorage)
    ELSE LET fs == Marked(flashcardState, type)
         IN ClientStep(nextFlashcard(fs, loadingFlashcard, fetching), saveProgress(fs))

MarkFlashcard ==
    \E type \in {"known", "review"} : event' = "mark" /\ markFlashcard(type)

\* what an earlier session may have left in localStorage
EarlierProgress ==
    {Absent,
     saveProgress([InitialFlashcardState EXCEPT !.knownWords = <<"cat">>,
                                                !.reviewWords = <<"tom", "run">>])}

ClientStart ==
    /\ localStorage \in EarlierProgress
    /\ flashcardState = loadProgress(InitialFlashcardState, localStorage)
    /\ loadingFlashcard = FALSE
    /\ fetching = FALSE
    /\ event = "pageLoad"

(***************************************************************************)
(* The browser application: the detail view and its sentences.  A handler  *)
(* runs up to its await in one step; the rest of it runs in the step that  *)
(* delivers the response.                                                  *)
(***************************************************************************)
\* String(n) of the offsets and limits the client puts in a URL
String(n) == ToString(n)

\* response.ok
Ok(response) == response.status >= 200 /\ response.status <= 299

\* a fetch that rejects: no response reaches the application
NetworkError == Response(0, "", "", NoCors, "", "", TextBody("network error"))

NoButton == [shown |-> FALSE, offset |-> 0, limit |-> 0]

\* data-limit of the button renderSentencesSection writes
LoadMoreLimit == 30

\* renderSentencesSection(word): the list and the button it renders
renderSentencesSection(word) ==
    LET preview == IF "sentences_preview" \in DOMAIN word THEN word.sentences_preview ELSE <<>>
        totalCount == IF "sentences_total" \in DOMAIN word THEN word.sentences_total ELSE 0
        nextOffset ==
            IF "sentences_next_offset" \in DOMAIN word /\ word.sentences_next_offset # 0
            THEN word.sentences_next_offset
            ELSE Len(preview)
        hasMore == nextOffset < totalCount
    IN IF totalCount = 0 THEN [list |-> <<>>, btn |-> NoButton]
       ELSE [list |-> preview,
             btn |-> IF hasMore
                     THEN [shown |-> TRUE, offset |-> nextOffset, limit |-> LoadMoreLimit]
                     ELSE NoButton]

\* displayWordDetails(word)
displayWordDetails(word) ==
    /\ detailWord' = word.lemma
    /\ sentencesList' = renderSentencesSection(word).list
    /\ loadMoreBtn' = renderSentencesSection(word).btn

\* the worker handles a request of the application: the store and cache
\* side of the step
Served(request, out) ==
    /\ req' = request
    /\ resp' = out.resp
    /\ kv' = out.kv
    /\ edge' = out.edge
    /\ ops' = out.ops
    /\ UNCHANGED <<r2, audio, hasKV, hasAudio>>

\* what a fetch of the application can come back with: a response of the
\* worker, or a rejection that leaves the worker as it was
Exchanges(request) ==
    fetch(request, Ctx(kv, edge)) \cup {Out(Ctx(kv, edge), NetworkError)}

\* showWordDetail(lemma) up to its await
showWordDetail(lemma) ==
    IF loadingDetail THEN UNCHANGED <<loadingDetail, detailRequests>>
    ELSE /\ loadingDetail' = TRUE
         /\ detailRequests' = Append(detailRequests, lemma)

ShowWordDetail ==
    \E lemma \in {"run", "cat", "tom"} :
        /\ event' = "showWordDetail"
        /\ showWordDetail(lemma)
        /\ UNCHANGED <<detailWord, sentencesList, loadMoreBtn, randomVars, quizVars>>
        /\ UNCHANGED <<apiVars, workerVars, flashcardState, loadingFlashcard, fetching,
                       localStorage>>

\* the rest of showWordDetail: the response is rendered when it is ok, the
\* lock is released in the finally block
showWordDetailDone(response) ==
    /\ IF Ok(response) THEN displayWordDetails(response.body.val)
       ELSE UNCHANGED <<detailWord, sentencesList, loadMoreBtn>>
    /\ loadingDetail' = FALSE
    /\ detailRequests' = Tail(detailRequests)

\* getRandomWord after `await showWordDetail(..)`: the cooldown is started
randomAfterDetail ==
    IF randomAwaitsDetail
    THEN /\ randomAwaitsDetail' = FALSE
         /\ cooldown' = cooldown + 1
         /\ UNCHANGED <<fetchingRandom, currentFilters, randomRequests>>
    ELSE UNCHANGED randomVars

DetailResponse ==
    /\ detailRequests # <<>>
    /\ event' = "detailResponse"
    /\ \E out \in Exchanges(Get(DetailPrefix \o <<Head(detailRequests)>>)) :
            /\ Served(Get(DetailPrefix \o <<Head(detailRequests)>>), out)
            /\ showWordDetailDone(out.resp)
    /\ randomAfterDetail
    /\ UNCHANGED <<quizVars, workerVars, flashcardState, loadingFlashcard, fetching,
                   localStorage>>

\* the limits a caller of /api/vocab/sentences pages with
PageLimits == {1, 2, MaxLimit}

\* a caller starts to page through the sentences of a word from offset 0
PageFromStart ==
    \E lemma \in {"run", "cat", "tom"}, limit \in PageLimits :
        /\ event' = "pageFromStart"
        /\ detailWord' = lemma
        /\ sentencesList' = <<>>
        /\ loadMoreBtn' = [shown |-> TRUE, offset |-> 0, limit |-> limit]
        /\ UNCHANGED <<loadingDetail, detailRequests, randomVars, quizVars>>
        /\ UNCHANGED <<apiVars, workerVars, flashcardState, loadingFlashcard, fetching,
                       localStorage>>

SentencesRequest(lemma, offset, limit) ==
    [Get(SentencesPath) EXCEPT !.lemma = lemma, !.offset = String(offset),
                               !.limit = String(limit)]

\* loadMoreSentences(lemma, offset, limit) and the click handler around it
loadMoreSentences(offset, response) ==
    IF ~Ok(response) THEN UNCHANGED <<sentencesList, loadMoreBtn>>
    ELSE LET data == response.body.val
             items == data.items
             next == IF isNaN(data.next_offset) \/ data.next_offset.v = 0
                     THEN offset + Len(items)
                     ELSE data.next_offset.v
             hasMore == data.has_more /\ next < data.total
         IN /\ sentencesList' = sentencesList \o items
            /\ loadMoreBtn' = IF hasMore THEN [loadMoreBtn EXCEPT !.offset = next]
                              ELSE [loadMoreBtn EXCEPT !.shown = FALSE]

LoadMore ==
    /\ loadMoreBtn.shown
    /\ event' = "loadMore"
    /\ LET request == SentencesRequest(detailWord, loadMoreBtn.offset, loadMoreBtn.limit)
       IN \E out \in Exchanges(request) :
                /\ Served(request, out)
                /\ loadMoreSentences(loadMoreBtn.offset, out.resp)
    /\ UNCHANGED <<loadingDetail, detailRequests, detailWord, randomVars, quizVars>>
    /\ UNCHANGED <<workerVars, flashcardState, loadingFlashcard, fetching, localStorage>>

\* the sentences of a word as the store holds them: featured, then other
AllSentences(lemma) ==
    IF R2Get(DetailKey(lemma)) = Absent THEN <<>>
    ELSE splitSentencesData(R2Get(DetailKey(lemma)).json.sentences).featured
            \o splitSentencesData(R2Get(DetailKey(lemma)).json.sentences).other

\* a call of /api/vocab/sentences at or beyond the end of a word's sentences
BeyondRequests ==
    {SentencesRequest(lemma, Len(AllSentences(lemma)) + k, limit)
        : lemma \in {"run", "cat", "tom"}, k \in {0, 1}, limit \in {1, MaxLimit}}

GetSentencesBeyond ==
    \E request \in BeyondRequests :
        /\ event' = "getSentences"
        /\ \E out \in fetch(request, Ctx(kv, edge)) : Served(request, out)
        /\ UNCHANGED <<uiVars, workerVars, flashcardState, loadingFlashcard, fetching,
                       localStorage>>

(***************************************************************************)
(* The browser application: the random word                                *)
(***************************************************************************)
\* the filters the sliders and the part-of-speech buttons can set
FilterChoices ==
    { [freqMin |-> 3, freqMax |-> 45, pos |-> "all"],
      [freqMin |-> 20, freqMax |-> 30, pos |-> "all"],
      [freqMin |-> 3, freqMax |-> 45, pos |-> "NOUN"] }

SetFilters ==
    \E filters \in FilterChoices :
        /\ event' = "setFilters"
        /\ currentFilters' = filters
        /\ UNCHANGED <<fetchingRandom, randomRequests, randomAwaitsDetail, cooldown>>
        /\ UNCHANGED <<detailVars, quizVars, apiVars, workerVars, flashcardState,
                       loadingFlashcard, fetching, localStorage>>

\* the URL getRandomWord builds from the filters
RandomRequest(filters) ==
    [Get(RandomPath) EXCEPT
        !.freq_min = String(filters.freqMin),
        !.freq_max = String(filters.freqMax),
        !.pos = IF filters.pos # "all" THEN <<filters.pos>> ELSE <<>>,
        !.exclude_propn = IF filters.pos # "PROPN" THEN "true" ELSE "",
        !.t = "now"]

\* getRandomWord up to its await
getRandomWord ==
    IF fetchingRandom THEN UNCHANGED <<fetchingRandom, randomRequests>>
    ELSE /\ fetchingRandom' = TRUE
         /\ randomRequests' = Append(randomRequests, RandomRequest(currentFilters))

GetRandomWord ==
    /\ event' = "getRandomWord"
    /\ getRandomWord
    /\ UNCHANGED <<currentFilters, randomAwaitsDetail, cooldown>>
    /\ UNCHANGED <<detailVars, quizVars, apiVars, workerVars, flashcardState,
                   loadingFlashcard, fetching, localStorage>>

\* the local candidates of the fallback
LocalCandidates(filters) ==
    {w \in Range(VocabIndex) :
        /\ w.count >= filters.freqMin /\ w.count <= filters.freqMax
        /\ filters.pos # "all" => w.primary_pos = filters.pos}

\* the fallback of getRandomWord: no candidate ends the handler after the
\* alert; else showWordDetail is awaited and the cooldown started after it
randomFallback ==
    IF LocalCandidates(currentFilters) = {}
    THEN UNCHANGED <<detailVars, randomAwaitsDetail, cooldown>>
    ELSE \E randomWord \in LocalCandidates(currentFilters) :
            /\ showWordDetail(randomWord.lemma)
            /\ randomAwaitsDetail' = ~loadingDetail
            /\ cooldown' = IF loadingDetail THEN cooldown + 1 ELSE cooldown
            /\ UNCHANGED <<detailWord, sentencesList, loadMoreBtn>>

\* the rest of getRandomWord: an ok response is shown and the cooldown
\* started; anything else goes to the fallback
RandomResponse ==
    /\ randomRequests # <<>>
    /\ event' = "randomResponse"
    /\ \E out \in Exchanges(Head(randomRequests)) :
        /\ Served(Head(randomRequests), out)
        /\ IF Ok(out.resp)
           THEN /\ displayWordDetails(out.resp.body.val)
                /\ cooldown' = cooldown + 1
                /\ UNCHANGED <<loadingDetail, detailRequests, randomAwaitsDetail>>
           ELSE randomFallback
    /\ randomRequests' = Tail(randomRequests)
    /\ UNCHANGED <<fetchingRandom, currentFilters>>
    /\ UNCHANGED <<quizVars, workerVars, flashcardState, loadingFlashcard, fetching,
                   localStorage>>

\* the 600 ms timer of getRandomWord fires
CooldownElapsed ==
    /\ cooldown > 0
    /\ event' = "cooldownElapsed"
    /\ fetchingRandom' = FALSE
    /\ cooldown' = cooldown - 1
    /\ UNCHANGED <<currentFilters, randomRequests, randomAwaitsDetail>>
    /\ UNCHANGED <<detailVars, quizVars, apiVars, workerVars, flashcardState,
                   loadingFlashcard, fetching, localStorage>>

(***************************************************************************)
(* The browser application: the quiz                                       *)
(***************************************************************************)
\* how many generate requests and answer timers the model follows
MaxInFlight == 2
MaxAnswerTimers == 1

MinClientCount == 5
MaxClientCount == 50

\* Math.min(100, Math.max(1, parseInt(DOM.quizCount.value) || 10))
ClientQuizCount(value) ==
    LET parsed == parseInt(value)
        n == IF isNaN(parsed) \/ parsed.v = 0 THEN 10 ELSE parsed.v
    IN IF n < 1 THEN 1 ELSE IF n > 100 THEN 100 ELSE n

\* the URL startQuiz builds
QuizRequest(type, count, freqMin) ==
    [Get(QuizPath) EXCEPT !.type = type, !.count = String(count),
                          !.freq_min = IF isNaN(parseInt(freqMin)) THEN ""
                                       ELSE String(parseInt(freqMin).v),
                          !.t = "now"]

\* startQuiz(type) up to its await, with the values of the count and the
\* minimum-frequency inputs
startQuiz(type, countValue, freqMin) ==
    IF generatingQuiz THEN UNCHANGED <<generatingQuiz, quizRequests>>
    ELSE IF ClientQuizCount(countValue) < MinClientCount
            \/ ClientQuizCount(countValue) > MaxClientCount
    THEN /\ generatingQuiz' = FALSE
         /\ UNCHANGED quizRequests
    ELSE /\ generatingQuiz' = TRUE
         /\ quizRequests' =
                Append(quizRequests, QuizRequest(type, ClientQuizCount(countValue), freqMin))

\* a click on a quiz type button of the selection view
StartQuiz ==
    \E type \in {"choice", "spelling"}, countValue \in {"10", "2"}, freqMin \in {"", "60"} :
        /\ quizView = "selection"
        /\ Len(quizRequests) < MaxInFlight
        /\ event' = "startQuiz"
        /\ startQuiz(type, countValue, freqMin)
        /\ UNCHANGED <<quizState, quizView, answerTimers>>
        /\ UNCHANGED <<detailVars, randomVars, apiVars, workerVars, flashcardState,
                       loadingFlashcard, fetching, localStorage>>

\* transformChoiceQuestions(questions, 'word_to_def')
transformChoiceQuestions(questions) ==
    [i \in DOMAIN questions |->
        [promptTitle |-> "definition", prompt |-> questions[i].word] @@ questions[i]]

\* the rest of startQuiz.  An ok response starts the quiz and keeps the
\* lock; renderQuestion throws on an empty quiz, and that, like any other
\* failure, ends in the alert and releases the lock.
startQuizDone(request, response) ==
    IF Ok(response)
    THEN /\ quizState' =
                [type |-> request.type,
                 questions |-> IF request.type = "choice"
                               THEN transformChoiceQuestions(response.body.val.questions)
                               ELSE response.body.val.questions,
                 currentQuestion |-> 0, answers |-> <<>>, score |-> 0]
         /\ quizView' = "active"
         /\ generatingQuiz' = (response.body.val.questions # <<>>)
    ELSE /\ generatingQuiz' = FALSE
         /\ UNCHANGED <<quizState, quizView>>

QuizResponse ==
    \E i \in DOMAIN quizRequests :
        /\ event' = "quizResponse"
        /\ \E out \in Exchanges(quizRequests[i]) :
            /\ Served(quizRequests[i], out)
            /\ startQuizDone(quizRequests[i], out.resp)
        /\ quizRequests' = SubSeq(quizRequests, 1, i - 1)
                              \o SubSeq(quizRequests, i + 1, Len(quizRequests))
        /\ UNCHANGED answerTimers
        /\ UNCHANGED <<detailVars, randomVars, workerVars, flashcardState, loadingFlashcard,
                       fetching, localStorage>>

\* showQuizSelection: the quiz mode button, the back button of the results
\* and the exit button of a running quiz
ShowQuizSelection ==
    /\ event' = "showQuizSelection"
    /\ quizView' = "selection"
    /\ generatingQuiz' = FALSE
    /\ UNCHANGED <<quizRequests, quizState, answerTimers>>
    /\ UNCHANGED <<detailVars, randomVars, apiVars, workerVars, flashcardState,
                   loadingFlashcard, fetching, localStorage>>

\* checkAnswer(answer); the lemmas and the answers typed here are lower
\* case, which toLowerCase leaves as they are
checkAnswer(answer) ==
    LET question == quizState.questions[quizState.currentQuestion + 1]
        correct == (answer = question.correct)
    IN /\ quizState' =
            [quizState EXCEPT
                !.answers = Append(@, [question |-> question, answer |-> answer,
                                       correct |-> correct]),
                !.score = IF correct THEN @ + 1 ELSE @]
       /\ answerTimers' = answerTimers + 1

CheckAnswer ==
    /\ quizView = "active"
    /\ quizState.currentQuestion < Len(quizState.questions)
    /\ answerTimers < MaxAnswerTimers
    /\ event' = "checkAnswer"
    /\ \E answer \in {quizState.questions[quizState.currentQuestion + 1].correct, "zzz"} :
            checkAnswer(answer)
    /\ UNCHANGED <<generatingQuiz, quizRequests, quizView>>
    /\ UNCHANGED <<detailVars, randomVars, apiVars, workerVars, flashcardState,
                   loadingFlashcard, fetching, localStorage>>

\* the 1500 ms timer of checkAnswer fires: the next question, or the
\* results after the last one
AnswerTimeout ==
    /\ answerTimers > 0
    /\ event' = "answerTimeout"
    /\ answerTimers' = answerTimers - 1
    /\ quizState' = [quizState EXCEPT !.currentQuestion = @ + 1]
    /\ quizView' = IF quizState.currentQuestion + 1 >= Len(quizState.questions)
                   THEN "results" ELSE quizView
    /\ UNCHANGED <<generatingQuiz, quizRequests>>
    /\ UNCHANGED <<detailVars, randomVars, apiVars, workerVars, flashcardState,
                   loadingFlashcard, fetching, localStorage>>

\* the restart button of the results: startQuiz(AppState.quizState.type),
\* with the inputs as the running quiz left them
RestartQuiz ==
    /\ quizView = "results"
    /\ Len(quizRequests) < MaxInFlight
    /\ event' = "restart"
    /\ startQuiz(quizState.type, "10", "")
    /\ UNCHANGED <<quizState, quizView, answerTimers>>
    /\ UNCHANGED <<detailVars, randomVars, apiVars, workerVars, flashcardState,
                   loadingFlashcard, fetching, localStorage>>

InitialQuizState ==
    [type |-> "", questions |-> <<>>, currentQuestion |-> 0, answers |-> <<>>, score |-> 0]

\* the sliders start at 1 and 20 and are clamped to the counts of the index
InitialFilters == [freqMin |-> 3, freqMax |-> 20, pos |-> "all"]

\* the application after DOMContentLoaded, as far as the views go
UiStart ==
    /\ loadingDetail = FALSE
    /\ fetchingRandom = FALSE
    /\ generatingQuiz = FALSE
    /\ detailRequests = <<>>
    /\ detailWord = ""
    /\ sentencesList = <<>>
    /\ loadMoreBtn = NoButton
    /\ currentFilters = InitialFilters
    /\ randomRequests = <<>>
    /\ randomAwaitsDetail = FALSE
    /\ cooldown = 0
    /\ quizRequests = <<>>
    /\ quizState = InitialQuizState
    /\ quizView = "selection"
    /\ answerTimers = 0

(***************************************************************************)
(* Specifications                                                          *)
(***************************************************************************)
ApiIdle ==
    /\ r2 = [k \in StoreKeys |-> R2Object(k)]
    /\ hasKV = TRUE
    /\ hasAudio = TRUE
    /\ audio = {<<f>> : f \in AudioFiles}
    /\ kv = <<>>
    /\ edge = <<>>
    /\ req = NoRequest
    /\ resp = NoResponse
    /\ ops = <<>>

WorkerIdle ==
    /\ bucket = (KeyA :> Absent) @@ (KeyB :> Absent)
    /\ wreq = [method |-> "NONE", key |-> <<>>]
    /\ wresp = NoResponse
    /\ wops = <<>>

ClientIdle ==
    /\ localStorage = Absent
    /\ flashcardState = InitialFlashcardState
    /\ loadingFlashcard = FALSE
    /\ fetching = FALSE
    /\ event = "pageLoad"

\* worker-api.js, every route
InitApi == ApiStart /\ WorkerIdle /\ ClientIdle /\ UiStart

NextApi ==
    \/ Options
    \/ MethodNotAllowed
    \/ GetIndex
    \/ Search
    \/ GetDetail
    \/ RandomWord
    \/ GenerateQuiz
    \/ GetSearchIndex
    \/ GetSentences
    \/ GetAudio
    \/ OtherPath

SpecApi == InitApi /\ [][NextApi]_vars

\* worker-api.js, the filters of the random word and of the quiz.  They
\* read neither the KV cache nor the audio bucket, and they are applied
\* once both index objects have been read.
InitFilters ==
    /\ InitApi
    /\ hasKV
    /\ hasAudio
    /\ r2[VocabIndexKey] # Absent
    /\ r2[SearchIndexKey] # Absent

NextFilters == RandomWordAll \/ GenerateQuizAll

SpecFilters == InitFilters /\ [][NextFilters]_vars

\* worker.js
InitWorker == ApiIdle /\ WorkerStart /\ ClientIdle /\ UiStart

NextWorker == WorkerOtherMethod \/ WorkerGet

SpecWorker == InitWorker /\ [][NextWorker]_vars

\* the browser application
InitClient == ApiIdle /\ WorkerIdle /\ ClientStart /\ UiStart

NextClient ==
    \/ PageLoad
    \/ StartFlashcard
    \/ FlashcardLoaded
    \/ NextFlashcard
    \/ PreviousFlashcard
    \/ MarkFlashcard

SpecClient == InitClient /\ [][NextClient]_vars

\* the detail view and the paging of the sentences
InitPaging ==
    /\ ApiStart
    /\ hasAudio
    /\ r2[VocabIndexKey] # Absent
    /\ r2[SearchIndexKey] # Absent
    /\ WorkerIdle /\ ClientIdle /\ UiStart

NextPaging ==
    \/ ShowWordDetail
    \/ DetailResponse
    \/ PageFromStart
    \/ LoadMore
    \/ GetSentencesBeyond

SpecPaging == InitPaging /\ [][NextPaging]_vars

\* the locks of the detail view and of the flashcards, over a store whose
\* index names a word ("cat") that has no detail document
InitLocks ==
    /\ ApiStart
    /\ hasKV /\ hasAudio
    /\ r2[VocabIndexKey] # Absent
    /\ r2[SearchIndexKey] # Absent
    /\ r2[DetailKey("cat")] = Absent
    /\ WorkerIdle /\ ClientIdle /\ UiStart

NextLocks ==
    \/ ShowWordDetail
    \/ DetailResponse
    \/ StartFlashcard
    \/ FlashcardLoaded
    \/ NextFlashcard
    \/ PreviousFlashcard

\* a pending fetch settles: weak fairness of DetailResponse, which is
\* enabled exactly when a detail request is in flight
DetailSettles == []<>(detailRequests = <<>>) \/ []<><<DetailResponse>>_vars

SpecLocks ==
    /\ InitLocks
    /\ [][NextLocks]_vars
    /\ DetailSettles
    /\ WF_vars(FlashcardLoaded)

\* the random word
InitRandom == ApiIdle /\ WorkerIdle /\ ClientIdle /\ UiStart

NextRandom ==
    \/ SetFilters
    \/ GetRandomWord
    \/ RandomResponse
    \/ DetailResponse
    \/ CooldownElapsed

SpecRandom == InitRandom /\ [][NextRandom]_vars

\* the quiz
InitQuiz == ApiIdle /\ WorkerIdle /\ ClientIdle /\ UiStart

NextQuiz ==
    \/ StartQuiz
    \/ QuizResponse
    \/ ShowQuizSelection
    \/ CheckAnswer
    \/ AnswerTimeout
    \/ RestartQuiz

SpecQuiz == InitQuiz /\ [][NextQuiz]_vars

(***************************************************************************)
(* Properties of worker-api.js                                             *)
(***************************************************************************)
IsGet(request, path) == request.method = "GET" /\ request.path = path
IsDetailRequest(request) == request.method = "GET" /\ UnderPrefix(request.path, DetailPrefix)
LastSegment(request) == request.path[Len(request.path)]

HasJsonError(response) ==
    /\ response.ctype = "application/json"
    /\ response.body.kind = "object"
    /\ "error" \in DOMAIN response.body.val

\* C1: every response with an error status (4xx or 5xx) carries a JSON
\* body with an error field, on every route, /audio/ included.
C1_ErrorsAreJson == resp.status >= 400 => HasJsonError(resp)

\* the responses a request can get from the object store alone, with no
\* request handled before it
FreshResponses(request) == {o.resp : o \in fetch(request, Ctx(<<>>, <<>>))}

\* C2 as claimed: the response to any request is one the request gets from
\* the object store alone, whatever was handled before.
C2_Stateless == req.method # "NONE" => resp \in FreshResponses(req)

\* the routes that touch neither cache: everything but the index, the
\* search index and the detail of a word
CachingRoute(request) ==
    \/ IsGet(request, IndexPath)
    \/ IsGet(request, SearchIndexPath)
    \/ IsDetailRequest(request)

\* C2 as amended: a request to a route other than index, search-index and
\* detail leaves the KV cache and the edge cache as they were, and its
\* response is one it gets from the object store alone.
C2_StatelessRoutes ==
    [][~CachingRoute(req') =>
        /\ kv' = kv
        /\ edge' = edge
        /\ resp' \in FreshResponses(req')]_vars

\* a sentences request answered while both caches hold entries
C2_Witness ==
    /\ IsGet(req, SentencesPath)
    /\ resp.status = 200
    /\ kv # <<>>
    /\ edge # <<>>

\* the objects a request needs from the store
NeededKeys(request) ==
    IF request.method # "GET" THEN {}
    ELSE IF request.path = IndexPath THEN {VocabIndexKey}
    ELSE IF request.path = SearchPath /\ request.q # <<>> THEN {VocabIndexKey}
    ELSE IF IsDetailRequest(request) /\ LastSegment(request) # ""
    THEN {DetailKey(LastSegment(request))}
    ELSE IF request.path \in {RandomPath, QuizPath} THEN {SearchIndexKey, VocabIndexKey}
    ELSE IF request.path = SearchIndexPath THEN {SearchIndexKey}
    ELSE IF request.path = SentencesPath /\ request.lemma # ""
    THEN {DetailKey(request.lemma)}
    ELSE {}

\* C3: when an object the request needs is absent from the store, the
\* response is 404, for every handler.
C3_MissingIs404 ==
    (\E k \in NeededKeys(req) : R2Get(k) = Absent) => resp.status = 404

\* C4: a request that is neither GET nor OPTIONS is answered 405, an
\* OPTIONS request 204 with the CORS headers, both without any access to
\* the object store, the KV cache or the edge cache.
C4_GetOnly ==
    /\ req.method \notin {"GET", "OPTIONS", "NONE"} => (resp.status = 405 /\ ops = <<>>)
    /\ req.method = "OPTIONS" =>
        (resp.status = 204 /\ resp.cors = CORS_HEADERS /\ ops = <<>>)

\* a POST to the index route, answered 405 while the caches hold the index
C4_Witness ==
    /\ req.method = "POST"
    /\ req.path = IndexPath
    /\ resp.status = 405
    /\ kv # <<>>
    /\ edge # <<>>

\* the sentences a detail response carries, under either name
ReturnedSentences(body) ==
    IF "sentences" \in DOMAIN body
    THEN Range(splitSentencesData(body.sentences).featured)
            \cup Range(splitSentencesData(body.sentences).other)
    ELSE IF "sentences_preview" \in DOMAIN body THEN Range(body.sentences_preview)
    ELSE {}

StoredSentences(doc) ==
    Range(splitSentencesData(doc.sentences).featured)
        \cup Range(splitSentencesData(doc.sentences).other)

\* C5: the detail of an existing word carries every sentence stored for
\* the word, together with lemma, count, pos_dist and meanings.
C5_DetailComplete ==
    (IsDetailRequest(req) /\ resp.status = 200
        /\ R2Get(DetailKey(LastSegment(req))) # Absent) =>
        /\ {"lemma", "count", "pos_dist", "meanings"} \subseteq DOMAIN resp.body.val
        /\ StoredSentences(R2Get(DetailKey(LastSegment(req))).json)
                \subseteq ReturnedSentences(resp.body.val)

(***************************************************************************)
(* Properties of the filters                                               *)
(***************************************************************************)
StoredSearchIndex == R2Get(SearchIndexKey).json
StoredIndex == R2Get(VocabIndexKey).json

InBand(lemma, freq) ==
    freq # "" =>
        /\ freq \in DOMAIN StoredSearchIndex.by_frequency
        /\ lemma \in Range(StoredSearchIndex.by_frequency[freq])

UnderPos(lemma, pos) ==
    pos # <<>> =>
        \E p \in Range(pos) \cap DOMAIN StoredSearchIndex.by_pos :
            lemma \in Range(StoredSearchIndex.by_pos[p])

NotProperNoun(lemma, exclude) ==
    (exclude = "true" /\ "PROPN" \in DOMAIN StoredSearchIndex.by_pos) =>
        lemma \notin Range(StoredSearchIndex.by_pos["PROPN"])

WithinCounts(lemma, lo, hi) ==
    /\ ~isNaN(parseInt(lo)) => CountOf(StoredIndex, lemma) >= parseInt(lo).v
    /\ ~isNaN(parseInt(hi)) => CountOf(StoredIndex, lemma) <= parseInt(hi).v

SatisfiesFilters(lemma, request) ==
    /\ InBand(lemma, request.freq)
    /\ UnderPos(lemma, NonEmptyPieces(request.pos))
    /\ NotProperNoun(lemma, request.exclude_propn)
    /\ WithinCounts(lemma, request.freq_min, request.freq_max)

\* C6: the random word satisfies every filter of the request, and the
\* response is 404 when no word does.
C6_RandomSatisfiesFilters ==
    IsGet(req, RandomPath) =>
        /\ resp.status = 200 => SatisfiesFilters(resp.body.val.lemma, req)
        /\ (\A l \in Range(LemmasOf(StoredIndex)) : ~SatisfiesFilters(l, req))
                => resp.status = 404

\* C7: every question of a quiz is about a word that satisfies the freq,
\* pos, exclude_propn and freq_min/freq_max filters of the request.
C7_QuizSatisfiesFilters ==
    (IsGet(req, QuizPath) /\ resp.status = 200) =>
        \A i \in DOMAIN resp.body.val.questions :
            SatisfiesFilters(resp.body.val.questions[i].word, req)

MinDocumentedCount == 5
MaxDocumentedCount == 50

\* C8: the effective count is within 5..50, the response has at most that
\* many questions, and its count field is the number of questions.
C8_QuizCount ==
    (IsGet(req, QuizPath) /\ resp.status = 200) =>
        /\ ~isNaN(QuizCount(req))
        /\ QuizCount(req).v \in MinDocumentedCount..MaxDocumentedCount
        /\ Len(resp.body.val.questions) <= QuizCount(req).v
        /\ resp.body.val.count = Len(resp.body.val.questions)

(***************************************************************************)
(* Properties of the browser application                                   *)
(***************************************************************************)
\* what a loadProgress on a fresh page restores
Restored == loadProgress(InitialFlashcardState, localStorage)

\* C9: a loadProgress restores exactly the knownWords and reviewWords of
\* the application, after any sequence of markings.
C9_ProgressRoundTrip ==
    /\ Range(Restored.knownWords) = Range(flashcardState.knownWords)
    /\ Range(Restored.reviewWords) = Range(flashcardState.reviewWords)

\* a page load that restores sets only markings of this session produce
C9_Witness ==
    /\ event = "pageLoad"
    /\ Range(flashcardState.knownWords) = {"run", "tom"}
    /\ Range(flashcardState.reviewWords) = {"cat"}

(***************************************************************************)
(* Properties of worker.js                                                 *)
(***************************************************************************)
IsMp3Key(key) ==
    /\ Len(key) >= 4
    /\ key[Len(key) - 3] = "." /\ key[Len(key) - 2] = "m"
    /\ key[Len(key) - 1] = "p" /\ key[Len(key)] = "3"

\* C10: not GET is 405 and a GET for no .mp3 key is 400, both without a
\* read of the bucket; a GET for an absent .mp3 key is 404; only an
\* existing .mp3 object is 200, with the 30 day cache-control and its etag.
C10_ValidatesFirst ==
    wreq.method # "NONE" =>
        /\ wreq.method # "GET" => (wresp.status = 405 /\ wops = <<>>)
        /\ (wreq.method = "GET" /\ ~IsMp3Key(wreq.key)) => (wresp.status = 400 /\ wops = <<>>)
        /\ (wreq.method = "GET" /\ IsMp3Key(wreq.key) /\ Lookup(bucket, wreq.key) = Absent)
                => wresp.status = 404
        /\ wresp.status = 200 <=>
                (wreq.method = "GET" /\ IsMp3Key(wreq.key) /\ Lookup(bucket, wreq.key) # Absent)
        /\ wresp.status = 200 =>
                /\ wresp.cache = "public, max-age=2592000"
                /\ wresp.etag = Lookup(bucket, wreq.key).httpEtag

\* an existing object served with its own etag
C10_Witness ==
    /\ wreq = [method |-> "GET", key |-> KeyA]
    /\ wresp.status = 200
    /\ wresp.etag = "e2"

(***************************************************************************)
(* Properties of the sentences paging                                      *)
(***************************************************************************)
\* C11: every answered call of /api/vocab/sentences reports the word's total,
\* has_more exactly when next_offset is short of the total, and a call at or
\* beyond the end returns no items with has_more false; a call that leaves
\* has_more true has moved next_offset past its offset (so the paging ends
\* within total calls), and the items collected from offset 0 by following
\* next_offset are the first next_offset sentences of featured ++ other, in
\* order and once each: all of them when has_more is false.
C11_Pagination ==
    [][(event' \in {"loadMore", "getSentences"} /\ Ok(resp')) =>
        LET data == resp'.body.val
            all == AllSentences(req'.lemma)
            offset == parseInt(req'.offset).v
        IN /\ ~isNaN(data.next_offset)
           /\ data.total = Len(all)
           /\ data.next_offset.v <= data.total
           /\ data.has_more <=> data.next_offset.v # data.total
           /\ data.has_more => data.next_offset.v > offset
           /\ offset >= Len(all) => (data.items = <<>> /\ ~data.has_more)
           /\ event' = "loadMore" =>
                /\ sentencesList' = Slice(all, 0, data.next_offset.v)
                /\ loadMoreBtn'.shown <=> data.has_more
                /\ loadMoreBtn'.shown => loadMoreBtn'.offset = data.next_offset.v
                /\ ~data.has_more => sentencesList' = all]_vars

\* the seven sentences of "run", collected two at a time from offset 0
C11_Witness ==
    /\ event = "loadMore"
    /\ detailWord = "run"
    /\ loadMoreBtn = [shown |-> FALSE, offset |-> 2 * ((Len(AllSentences("run")) - 1) \div 2),
                      limit |-> 2]
    /\ sentencesList = AllSentences("run")
    /\ Len(sentencesList) > 2

IsCachedDocumentRequest(request) ==
    IsGet(request, IndexPath) \/ IsGet(request, SearchIndexPath)

KvKeyOf(request) ==
    IF request.path = IndexPath THEN <<"vocab_index">> ELSE <<"search_index">>
ObjectKeyOf(request) ==
    IF request.path = IndexPath THEN VocabIndexKey ELSE SearchIndexKey

\* the calls on KV, which are made when VOCAB_CACHE is bound
WhenKV(calls) == IF hasKV THEN calls ELSE <<>>

\* C13: the calls of an index or search-index request, in order: the edge
\* cache is matched first and a hit ends the handler; else KV is read and a
\* hit is put into the edge cache and returned; else the store is read and
\* the document is put into KV, then the response into the edge cache.  No
\* layer after the first that holds the document is read.
C13_CacheLayers ==
    [][IsCachedDocumentRequest(req') =>
        LET key == CacheKeyOf(req')
            kvKey == KvKeyOf(req')
            objKey == ObjectKeyOf(req')
            edgeHit == Lookup(edge, key) # Absent
            kvHit == hasKV /\ Lookup(kv, kvKey) # Absent
            match == << <<"edge.match", key>> >>
            kvGet == WhenKV(<< <<"kv.get", kvKey>> >>)
            kvPut == WhenKV(<< <<"kv.put", kvKey>> >>)
            r2Get == << <<"r2.get", objKey>> >>
            edgePut == << <<"edge.put", key>> >>
        IN IF edgeHit
           THEN /\ ops' = match
                /\ kv' = kv /\ edge' = edge
                /\ resp'.status = 304 \/ resp' = Lookup(edge, key)
           ELSE IF kvHit
           THEN /\ ops' = match \o kvGet \o edgePut
                /\ resp'.status = 200 /\ resp'.body = Lookup(kv, kvKey)
                /\ Lookup(edge', key) = resp'
                /\ kv' = kv
           ELSE IF R2Get(objKey) # Absent
           THEN /\ ops' = match \o kvGet \o r2Get \o kvPut \o edgePut
                /\ resp'.status = 200 /\ resp'.body.val = R2Get(objKey).json
                /\ hasKV => Lookup(kv', kvKey) = resp'.body
                /\ Lookup(edge', key) = resp'
           ELSE /\ ops' = match \o kvGet \o r2Get
                /\ resp'.status = 404
                /\ kv' = kv /\ edge' = edge]_vars

\* an index request answered from KV under a URL the edge cache did not hold
C13_Witness ==
    /\ IsGet(req, IndexPath)
    /\ hasKV
    /\ ops = << <<"edge.match", CacheKeyOf(req)>>, <<"kv.get", <<"vocab_index">> >>,
                <<"edge.put", CacheKeyOf(req)>> >>
    /\ resp.status = 200
    /\ resp.etag = ""

\* C14: on an edge-cache hit, a request whose If-None-Match is the ETag of
\* the cached response gets 304 with no body and that ETag, any other
\* request gets the cached response as it is; a miss never gives 304.
C14_ConditionalHit ==
    [][IsCachedDocumentRequest(req') =>
        LET cached == Lookup(edge, CacheKeyOf(req')) IN
        /\ (cached # Absent /\ req'.inm # "" /\ req'.inm = cached.etag) =>
                /\ resp'.status = 304
                /\ resp'.body = NullBody
                /\ resp'.etag = cached.etag
        /\ (cached # Absent /\ ~(req'.inm # "" /\ req'.inm = cached.etag)) =>
                resp' = cached
        /\ resp'.status = 304 => cached # Absent]_vars

\* a search-index request answered 304 from the edge cache
C14_Witness ==
    /\ IsGet(req, SearchIndexPath)
    /\ req.inm = "etag-search"
    /\ resp.status = 304
    /\ resp.etag = "etag-search"
    /\ ops = << <<"edge.match", CacheKeyOf(req)>> >>

\* C15: each lock of AppLocks prevents duplicate triggering: an invocation
\* made while the lock's request is in flight issues no request, so no lock
\* ever has more than one request outstanding.
C15_OneRequestPerLock ==
    /\ Len(detailRequests) <= 1
    /\ Len(randomRequests) <= 1
    /\ Len(quizRequests) <= 1

\* C18: the restart button of the results view issues a new generate
\* request for the type of the finished quiz, and a generate response that
\* succeeds gives the active view with currentQuestion 0, no answers and
\* score 0.
C18_RestartStartsQuiz ==
    [][/\ (quizView = "results" /\ event' = "restart") =>
            /\ Len(quizRequests') = Len(quizRequests) + 1
            /\ quizRequests'[Len(quizRequests')].type = quizState.type
       /\ (event' = "quizResponse" /\ Ok(resp')) =>
            /\ quizView' = "active"
            /\ quizState'.currentQuestion = 0
            /\ quizState'.answers = <<>>
            /\ quizState'.score = 0]_vars

\* C16: a held loadingDetail is eventually released and a held
\* loadingFlashcard is eventually released, whatever the detail fetch
\* returns and whether the deck has a card left or its summary is reached.
C16_LocksReleased ==
    /\ loadingDetail ~> ~loadingDetail
    /\ loadingFlashcard ~> ~loadingFlashcard

\* C16: a detail fetch has failed and released loadingDetail while the
\* flashcards, past their last card, show the summary with their own lock
\* released.
C16_Witness ==
    /\ event = "detailResponse"
    /\ resp.status = 404
    /\ ~loadingDetail
    /\ flashcardState.words # <<>>
    /\ flashcardState.currentIndex >= Len(flashcardState.words)
    /\ ~loadingFlashcard

\* C17: fetchingRandom is only held while something that leads to its
\* release is pending: the random request, the awaited showWordDetail of the
\* fallback, or the 600 ms timer that releases the lock and re-enables the
\* button.
C17_RandomLockReleased ==
    fetchingRandom => (randomRequests # <<>> \/ randomAwaitsDetail \/ cooldown > 0)

=============================================================================
